---- MODULE Spec2Model ----
(***************************************************************************)
(* Madeira Pass: a state-machine model of the React application            *)
(* (src/src/App.tsx), its cookie ledger (src/src/utils/cookies.ts), the    *)
(* geometry helpers (src/src/utils/distance.ts) and the rendering of the   *)
(* info panel (src/src/components/InfoPanel.tsx).                          *)
(*                                                                         *)
(* Encoding conventions                                                    *)
(*  - an optional value (null / undefined in the source) is a sequence of  *)
(*    length 0 or 1: <<>> is null/undefined, <<v>> is the value v;         *)
(*  - time is counted in ticks since the epoch (UTC), DayLen ticks a day;  *)
(*    a calendar date is the number of its day;                            *)
(*  - coordinates are integers on a local grid, GridStep metres a unit;    *)
(*  - a distance is kept exactly, as the rational number of its SQUARE in  *)
(*    square metres, [num, den]; Infinity is [num |-> 1, den |-> 0].       *)
(***************************************************************************)
EXTENDS Integers, Sequences, FiniteSets, TLC

VARIABLES
    now,             \* the clock: ticks since the epoch, UTC
    tzOffset,        \* local time = now + tzOffset (ticks)
    cookie,          \* the browser's cookie COOKIE_NAME: <<>> or <<[value, expires]>>
    userLocation,    \* App state: <<>> or <<[latitude, longitude]>> (accuracy is never read)
    routes,          \* App state: <<>> or <<features>> (the loaded catalogue)
    paidRouteIds,    \* App state: sequence of route ids
    selectedRouteId, \* App state: <<>> or <<id>>
    infoPanelState,  \* App state: [isOpen, view, selectedRoute, nearbyRoute]
    lastError,       \* the uncaught exception of the latest handler ("none" if it returned)
    taskQueue,       \* the geolocation callbacks queued for the page, oldest first
    oneShot,         \* getCurrentLocation: "pending", "queued", "resolved" or "rejected"
    fixCount,        \* the number of fixes the device has produced so far
    heldFix          \* the fix userLocation holds: its number (0 for none) and its source

vars == <<now, tzOffset, cookie, userLocation, routes, paidRouteIds,
          selectedRouteId, infoPanelState, lastError,
          taskQueue, oneShot, fixCount, heldFix>>

appVars == <<userLocation, routes, paidRouteIds, selectedRouteId, infoPanelState>>

\* the geolocation sources in detail; the actions that take a fix as given
\* leave them alone
geoVars == <<taskQueue, oneShot, fixCount, heldFix>>

(***************************************************************************)
(* Bounds of the model                                                     *)
(***************************************************************************)
DayLen == 2

MaxTime == 3

\* the fixes the device produces in the detailed model of the location sources
MaxFixes == 3

\* the callbacks that may wait in the queue at a time
MaxQueue == 2

\* the grid of the vertices of the two-vertex lines: 0..SegGrid in both axes
SegGrid == 2

\* the points of a segment its result is compared with: the endpoints and
\* the points that divide it in SegSamples equal parts
SegSamples == 4

GridStep == 10

TzOffsets == (1 - DayLen)..(DayLen - 1)

(***************************************************************************)
(* Optional values                                                         *)
(***************************************************************************)
Undefined == <<>>

Some(v) == <<v>>

IsDefined(o) == Len(o) = 1

Get(o) == o[1]

(***************************************************************************)
(* The clock and the two calendars                                         *)
(***************************************************************************)
\* new Date().toISOString().split('T')[0]: the calendar date in UTC
ISODate(t) == t \div DayLen

\* the calendar date of the user's local timezone
LocalDate(t, tz) == (t + tz) \div DayLen

\* getMidnightExpiration: today 23:59:59.999 LOCAL time, as a UTC instant;
\* the cookie is gone from the first tick of the next local day on
getMidnightExpiration(t, tz) == (LocalDate(t, tz) + 1) * DayLen - tz

(***************************************************************************)
(* The cookie store (document.cookie) and its serialised value             *)
(*                                                                         *)
(* A cookie value is the text the browser keeps.  Its model is a record    *)
(* [text, items]: text tells what decodeURIComponent and JSON.parse make   *)
(* of it, items are the elements when it is the JSON text of an array.     *)
(*   "array"       percent-encoded JSON text of an array of PaidRoute      *)
(*   "null"        percent-encoded JSON text of null (valid JSON, no array)*)
(*   "number"      JSON text of a number                                   *)
(*   "object"      percent-encoded JSON text of an object                  *)
(*   "invalidJSON" decodable text that JSON.parse rejects (SyntaxError)    *)
(*   "undecodable" text that decodeURIComponent rejects (URIError)         *)
(***************************************************************************)
NoCookie == <<>>

\* encodeURIComponent(JSON.stringify(list))
Serialize(list) == [text |-> "array", items |-> list]

CorruptValues ==
    {[text |-> k, items |-> <<>>] :
        k \in {"null", "number", "object", "invalidJSON", "undecodable"}}

\* what reading document.cookie finds for COOKIE_NAME: the browser no longer
\* returns a cookie whose expiration has passed
FindCookie == IF cookie # NoCookie /\ now < Get(cookie).expires THEN cookie ELSE NoCookie

\* The value of a JavaScript expression that yields an array of PaidRoute or
\* some other value: [isArray, list].  A call of an Array method on a value
\* with isArray = FALSE raises a TypeError.
ArrayValue(list) == [isArray |-> TRUE, list |-> list]

NotAnArray == [isArray |-> FALSE, list |-> <<>>]

\* getPaidRoutes(): [] without cookie, [] when decodeURIComponent or
\* JSON.parse throws (the catch), else whatever JSON.parse returns
getPaidRoutes ==
    IF FindCookie = NoCookie THEN ArrayValue(<<>>)
    ELSE LET value == Get(FindCookie).value
         IN  CASE value.text = "undecodable" -> ArrayValue(<<>>)
               [] value.text = "invalidJSON" -> ArrayValue(<<>>)
               [] value.text = "array"       -> ArrayValue(value.items)
               [] OTHER                      -> NotAnArray

\* The outcome of a call: it returned value, or threw
Returned(v) == [threw |-> FALSE, value |-> v]

Threw == [threw |-> TRUE, value |-> FALSE]

\* isRoutePaid with the comparison of the date left out
isRoutePaidAnyDate(routeId) ==
    LET paidRoutes == getPaidRoutes
    IN  IF ~paidRoutes.isArray THEN Threw
        ELSE Returned(\E i \in 1..Len(paidRoutes.list) :
                          paidRoutes.list[i].routeId = routeId)

\* isRoutePaid(routeId): paidRoutes.some(r => r.routeId === routeId && r.paidDate === today)
\* with today the UTC date of toISOString
isRoutePaid(routeId) ==
    LET paidRoutes == getPaidRoutes
        today == ISODate(now)
    IN  IF ~paidRoutes.isArray THEN Threw
        ELSE Returned(\E i \in 1..Len(paidRoutes.list) :
                          /\ paidRoutes.list[i].routeId = routeId
                          /\ paidRoutes.list[i].paidDate = today)

\* paidRoutes.filter(route => route.routeId !== routeId)
RECURSIVE FilterOut(_, _)
FilterOut(list, routeId) ==
    IF list = <<>> THEN <<>>
    ELSE IF Head(list).routeId = routeId
         THEN FilterOut(Tail(list), routeId)
         ELSE <<Head(list)>> \o FilterOut(Tail(list), routeId)

\* MarkedList without the filter: the new entry is pushed beside the old one
MarkedListNoFilter(list, routeId, today) ==
    Append(list, [routeId |-> routeId, paidDate |-> today])

\* MarkedList that starts the list over: the new entry alone
MarkedListOnlyNew(list, routeId, today) ==
    <<[routeId |-> routeId, paidDate |-> today]>>

\* the list markRoutePaid writes: the filtered list with the new entry pushed
MarkedList(list, routeId, today) ==
    Append(FilterOut(list, routeId), [routeId |-> routeId, paidDate |-> today])

\* markRoutePaid that stamps the mark with the local date, while isRoutePaid
\* goes on comparing with the UTC date
markRoutePaidLocalDate(routeId) ==
    LET paidRoutes == getPaidRoutes
        today == LocalDate(now, tzOffset)
    IN  IF ~paidRoutes.isArray
        THEN [threw |-> TRUE, cookie |-> cookie]
        ELSE [threw |-> FALSE,
              cookie |-> Some([value   |-> Serialize(MarkedList(paidRoutes.list, routeId, today)),
                               expires |-> getMidnightExpiration(now, tzOffset)])]

\* markRoutePaid(routeId): the cookie after the call, and whether it threw
markRoutePaid(routeId) ==
    LET paidRoutes == getPaidRoutes
        today == ISODate(now)
    IN  IF ~paidRoutes.isArray
        THEN [threw |-> TRUE, cookie |-> cookie]
        ELSE [threw |-> FALSE,
              cookie |-> Some([value   |-> Serialize(MarkedList(paidRoutes.list, routeId, today)),
                               expires |-> getMidnightExpiration(now, tzOffset)])]

\* clearPaidRoutes(): an empty value with an expiration in the past deletes the cookie
clearPaidRoutes == NoCookie

\* paid.map(r => r.routeId)
MapRouteId(list) == [i \in 1..Len(list) |-> list[i].routeId]

(***************************************************************************)
(* Distances (src/src/utils/distance.ts)                                   *)
(*                                                                         *)
(* The haversine distance is modelled on the local grid by the planar      *)
(* distance, kept exactly as the rational of its square in square metres.  *)
(***************************************************************************)
RECURSIVE GCD(_, _)
GCD(a, b) == IF b = 0 THEN a ELSE GCD(b, a % b)

\* the rational num/den (den > 0) in lowest terms
Ratio(num, den) ==
    LET g == GCD(num, den)
    IN  IF g = 0 THEN [num |-> 0, den |-> 1] ELSE [num |-> num \div g, den |-> den \div g]

Infinity == [num |-> 1, den |-> 0]

\* the result of 0 / 0 and of every operation on it
NaN == [num |-> 0, den |-> 0]

\* a < b and a <= b on distances, Infinity included
Less(a, b) == a.num * b.den < b.num * a.den

\* Math.min(a, b)
Min(a, b) == IF Less(b, a) THEN b ELSE a

\* distance <= metres, for a distance kept as its square
WithinMetres(distance, metres) == distance.num <= metres * metres * distance.den

\* calculateDistance(lat1, lon1, lat2, lon2), the coordinates given as
\* numerators over the common denominator den
calculateDistance(lat1, lon1, lat2, lon2, den) ==
    Ratio(GridStep * GridStep * ((lat2 - lat1) * (lat2 - lat1) + (lon2 - lon1) * (lon2 - lon1)),
          den * den)

\* distanceToSegment without `if (lenSq !== 0)`: param = dot / lenSq also for
\* a segment of length zero, where it is 0 / 0
distanceToSegmentNoGuard(px, py, x1, y1, x2, y2) ==
    LET A == px - x1
        B == py - y1
        C == x2 - x1
        D == y2 - y1
        dot == A * C + B * D
        lenSq == C * C + D * D
    IN  IF lenSq = 0 THEN NaN
        ELSE IF dot < 0
        THEN calculateDistance(py, px, y1, x1, 1)
        ELSE IF dot > lenSq
        THEN calculateDistance(py, px, y2, x2, 1)
        ELSE calculateDistance(py * lenSq, px * lenSq,
                               y1 * lenSq + dot * D, x1 * lenSq + dot * C, lenSq)

\* distanceToSegment without the two tests of param: the projection on the
\* whole line through the endpoints
distanceToSegmentUnclamped(px, py, x1, y1, x2, y2) ==
    LET A == px - x1
        B == py - y1
        C == x2 - x1
        D == y2 - y1
        dot == A * C + B * D
        lenSq == C * C + D * D
    IN  IF lenSq = 0
        THEN calculateDistance(py, px, y1, x1, 1)
        ELSE calculateDistance(py * lenSq, px * lenSq,
                               y1 * lenSq + dot * D, x1 * lenSq + dot * C, lenSq)

\* distanceToSegment(px, py, x1, y1, x2, y2): param = dot / lenSq is compared
\* with 0 and 1 through dot and lenSq; the closest point (xx, yy) is kept as
\* numerators over lenSq
distanceToSegment(px, py, x1, y1, x2, y2) ==
    LET A == px - x1
        B == py - y1
        C == x2 - x1
        D == y2 - y1
        dot == A * C + B * D
        lenSq == C * C + D * D
    IN  IF lenSq = 0 \/ dot < 0
        THEN calculateDistance(py, px, y1, x1, 1)          \* param = -1 or param < 0
        ELSE IF dot > lenSq
        THEN calculateDistance(py, px, y2, x2, 1)          \* param > 1
        ELSE calculateDistance(py * lenSq, px * lenSq,
                               y1 * lenSq + dot * D, x1 * lenSq + dot * C, lenSq)

\* the minimum over the consecutive vertex pairs of one line, starting from acc
RECURSIVE LineMin(_, _, _, _, _)
LineMin(latitude, longitude, line, i, acc) ==
    IF i > Len(line) - 1 THEN acc
    ELSE LineMin(latitude, longitude, line, i + 1,
                 Min(acc, distanceToSegment(longitude, latitude,
                                            line[i][1], line[i][2],
                                            line[i + 1][1], line[i + 1][2])))

RECURSIVE LinesMin(_, _, _, _, _)
LinesMin(latitude, longitude, lines, k, acc) ==
    IF k > Len(lines) THEN acc
    ELSE LinesMin(latitude, longitude, lines, k + 1,
                  LineMin(latitude, longitude, lines[k], 1, acc))

\* distanceToGeometry answering 0 instead of Infinity for a geometry of a
\* type it does not handle
distanceToGeometryZero(latitude, longitude, geometry) ==
    CASE geometry.type = "LineString" ->
            LineMin(latitude, longitude, geometry.lines[1], 1, Infinity)
      [] geometry.type = "MultiLineString" ->
            LinesMin(latitude, longitude, geometry.lines, 1, Infinity)
      [] geometry.type = "Point" ->
            calculateDistance(latitude, longitude,
                              geometry.lines[1][1][2], geometry.lines[1][1][1], 1)
      [] OTHER -> [num |-> 0, den |-> 1]

\* distanceToGeometry(latitude, longitude, geometry); geometry is
\* [type, lines]: lines holds the one line of a LineString, the lines of a
\* MultiLineString, <<<<point>>>> for a Point, the rings of a Polygon
distanceToGeometry(latitude, longitude, geometry) ==
    CASE geometry.type = "LineString" ->
            LineMin(latitude, longitude, geometry.lines[1], 1, Infinity)
      [] geometry.type = "MultiLineString" ->
            LinesMin(latitude, longitude, geometry.lines, 1, Infinity)
      [] geometry.type = "Point" ->
            calculateDistance(latitude, longitude,
                              geometry.lines[1][1][2], geometry.lines[1][1][1], 1)
      [] OTHER -> Infinity

(***************************************************************************)
(* The route catalogue and the location fixes of the model                 *)
(* Coordinates are <<longitude, latitude>> as in GeoJSON.                  *)
(***************************************************************************)
Feature(id, requiresPayment, type, lines) ==
    [properties |-> [id |-> id, requiresPayment |-> requiresPayment],
     geometry   |-> [type |-> type, lines |-> lines]]

PR1 == Feature("PR1", TRUE, "LineString", << << <<0, 0>>, <<4, 0>> >> >>)

PR6 == Feature("PR6", TRUE, "MultiLineString",
               << << <<0, 11>>, <<4, 11>> >>, << <<4, 11>>, <<6, 13>> >> >>)

PR9 == Feature("PR9", FALSE, "LineString", << << <<10, 0>>, <<10, 4>> >> >>)

Catalogues == { <<PR1, PR6, PR9>> }

RouteIds == {"PR1", "PR6", "PR9"}

\* a route whose geometry is of a type distanceToGeometry does not handle;
\* the fix (2, 5) lies inside the polygon
PRX == Feature("PRX", TRUE, "Polygon",
               << << <<1, 4>>, <<3, 4>>, <<3, 6>>, <<1, 4>> >> >>)

\* a second feature with the id of PR1
PR1Twin == Feature("PR1", FALSE, "LineString", << << <<0, 11>>, <<4, 11>> >> >>)

\* what paid_routes.geojson may hold: the fetch hands any parsed body to
\* setRoutes
LoadableCatalogues ==
    Catalogues \cup
    { <<PR9, PR6, PR1>>,
      <<PRX, PR1, PR6, PR9>>, <<PR1, PRX, PR6, PR9>>, <<PR1, PR6, PR9, PRX>>,
      <<PRX>>, <<>>,
      <<PR1, PR1Twin, PR6>> }

LoadableRouteIds == RouteIds \cup {"PRX"}

\* a route that is one segment from <<x1, y1>> to <<x2, y2>>
SegmentRoute(first, second) == Feature("SEG", TRUE, "LineString", << <<first, second>> >>)

SegmentPoints == {<<x, y>> : x \in 0..SegGrid, y \in 0..SegGrid}

\* the catalogues of one two-vertex line, the line of length zero included
SegmentCatalogues ==
    { <<SegmentRoute(first, second)>> : first \in SegmentPoints, second \in SegmentPoints }

Fix(longitude, latitude) == [latitude |-> latitude, longitude |-> longitude]

Fixes ==
    { Fix(2, 5),     \* 50 m from PR1: the boundary
      Fix(5, 5),     \* just beyond 50 m of PR1 and of PR9
      Fix(7, 0),     \* 30 m from PR1 and from PR9: a tie
      Fix(10, 2),    \* on PR9, which requires no payment
      Fix(6, 12) }   \* beside the oblique segment of PR6

\* the fixes around the two-vertex lines: on the grid and one unit beyond it
ProbeFixes == {Fix(x, y) : x \in -1..(SegGrid + 1), y \in -1..(SegGrid + 1)}

(***************************************************************************)
(* App (src/src/App.tsx)                                                   *)
(***************************************************************************)
PROXIMITY_THRESHOLD == 50

Views == {"main", "routes-list", "pass-info", "about", "route-detail"}

\* the views the menu and the panel's navigation buttons lead to
MenuViews == Views \ {"route-detail"}

\* the scan with distance <= minDistance: of routes at the same distance the
\* last one wins
RECURSIVE ScanLastWins(_, _, _, _)
ScanLastWins(location, features, i, closestRoute) ==
    IF i > Len(features) THEN closestRoute
    ELSE LET feature == features[i]
             distance == distanceToGeometry(location.latitude, location.longitude,
                                            feature.geometry)
             minDistance == IF IsDefined(closestRoute)
                            THEN Get(closestRoute).distance ELSE Infinity
         IN  ScanLastWins(location, features, i + 1,
                          IF ~Less(minDistance, distance)
                          THEN Some([route |-> feature, distance |-> distance])
                          ELSE closestRoute)

\* the nearest-route scan of the proximity effect: closestRoute after the
\* features from index i on have been visited (minDistance is the distance
\* of closestRoute, Infinity while closestRoute is null)
RECURSIVE Scan(_, _, _, _)
Scan(location, features, i, closestRoute) ==
    IF i > Len(features) THEN closestRoute
    ELSE LET feature == features[i]
             distance == distanceToGeometry(location.latitude, location.longitude,
                                            feature.geometry)
             minDistance == IF IsDefined(closestRoute)
                            THEN Get(closestRoute).distance ELSE Infinity
         IN  Scan(location, features, i + 1,
                  IF Less(distance, minDistance)
                  THEN Some([route |-> feature, distance |-> distance])
                  ELSE closestRoute)

\* the scan of every catalogue from every fix of the model, computed once
ClosestRouteTable ==
    [features \in LoadableCatalogues \cup SegmentCatalogues |->
        [location \in Fixes \cup ProbeFixes |-> Scan(location, features, 1, Undefined)]]

ClosestRoute(location, features) == ClosestRouteTable[features][location]

\* the proximity effect with distance < PROXIMITY_THRESHOLD: the boundary excluded
ProximityEffectStrict(location, catalogue, panel) ==
    IF ~IsDefined(location) \/ ~IsDefined(catalogue) THEN panel
    ELSE LET closestRoute == ClosestRoute(Get(location), Get(catalogue))
         IN  IF IsDefined(closestRoute)
                /\ Less(Get(closestRoute).distance,
                        [num |-> PROXIMITY_THRESHOLD * PROXIMITY_THRESHOLD, den |-> 1])
                /\ Get(closestRoute).route.properties.requiresPayment
                /\ isRoutePaid(Get(closestRoute).route.properties.id) = Returned(FALSE)
             THEN [isOpen        |-> TRUE,
                   view          |-> "route-detail",
                   selectedRoute |-> Some(Get(closestRoute).route),
                   nearbyRoute   |-> closestRoute]
             ELSE panel

\* the proximity effect that sets the panel for every route within the
\* threshold, paid or free of charge as well
ProximityEffectAnyRoute(location, catalogue, panel) ==
    IF ~IsDefined(location) \/ ~IsDefined(catalogue) THEN panel
    ELSE LET closestRoute == ClosestRoute(Get(location), Get(catalogue))
         IN  IF IsDefined(closestRoute)
                /\ WithinMetres(Get(closestRoute).distance, PROXIMITY_THRESHOLD)
             THEN [isOpen        |-> TRUE,
                   view          |-> "route-detail",
                   selectedRoute |-> Some(Get(closestRoute).route),
                   nearbyRoute   |-> closestRoute]
             ELSE panel

\* the proximity effect without the comparison with PROXIMITY_THRESHOLD: the
\* closest route counts at any distance
ProximityEffectNoThreshold(location, catalogue, panel) ==
    IF ~IsDefined(location) \/ ~IsDefined(catalogue) THEN panel
    ELSE LET closestRoute == ClosestRoute(Get(location), Get(catalogue))
         IN  IF IsDefined(closestRoute)
                /\ Get(closestRoute).route.properties.requiresPayment
                /\ isRoutePaid(Get(closestRoute).route.properties.id) = Returned(FALSE)
             THEN [isOpen        |-> TRUE,
                   view          |-> "route-detail",
                   selectedRoute |-> Some(Get(closestRoute).route),
                   nearbyRoute   |-> closestRoute]
             ELSE panel

\* the proximity effect without the test of requiresPayment: every unpaid
\* route within the threshold is put in the panel as the nearby route
ProximityEffectWarnsFree(location, catalogue, panel) ==
    IF ~IsDefined(location) \/ ~IsDefined(catalogue) THEN panel
    ELSE LET closestRoute == ClosestRoute(Get(location), Get(catalogue))
         IN  IF IsDefined(closestRoute)
                /\ WithinMetres(Get(closestRoute).distance, PROXIMITY_THRESHOLD)
                /\ isRoutePaid(Get(closestRoute).route.properties.id) = Returned(FALSE)
             THEN [isOpen        |-> TRUE,
                   view          |-> "route-detail",
                   selectedRoute |-> Some(Get(closestRoute).route),
                   nearbyRoute   |-> closestRoute]
             ELSE panel

\* the proximity effect that warns once per route: it leaves the panel alone
\* when the panel state already holds the closest route as the nearby route
ProximityEffectOncePerRoute(location, catalogue, panel) ==
    IF ~IsDefined(location) \/ ~IsDefined(catalogue) THEN panel
    ELSE LET closestRoute == ClosestRoute(Get(location), Get(catalogue))
         IN  IF IsDefined(closestRoute)
                /\ WithinMetres(Get(closestRoute).distance, PROXIMITY_THRESHOLD)
                /\ Get(closestRoute).route.properties.requiresPayment
                /\ isRoutePaid(Get(closestRoute).route.properties.id) = Returned(FALSE)
                /\ ~(/\ IsDefined(panel.nearbyRoute)
                      /\ Get(panel.nearbyRoute).route = Get(closestRoute).route)
             THEN [isOpen        |-> TRUE,
                   view          |-> "route-detail",
                   selectedRoute |-> Some(Get(closestRoute).route),
                   nearbyRoute   |-> closestRoute]
             ELSE panel

\* the proximity effect that opens the list of routes when the scan finds
\* no route at all
ProximityEffectListsWhenNone(location, catalogue, panel) ==
    IF ~IsDefined(location) \/ ~IsDefined(catalogue) THEN panel
    ELSE LET closestRoute == ClosestRoute(Get(location), Get(catalogue))
         IN  IF ~IsDefined(closestRoute)
             THEN [isOpen |-> TRUE, view |-> "routes-list",
                   selectedRoute |-> Undefined, nearbyRoute |-> Undefined]
             ELSE IF /\ WithinMetres(Get(closestRoute).distance, PROXIMITY_THRESHOLD)
                     /\ Get(closestRoute).route.properties.requiresPayment
                     /\ isRoutePaid(Get(closestRoute).route.properties.id) = Returned(FALSE)
             THEN [isOpen        |-> TRUE,
                   view          |-> "route-detail",
                   selectedRoute |-> Some(Get(closestRoute).route),
                   nearbyRoute   |-> closestRoute]
             ELSE panel

\* the proximity effect (useEffect on [userLocation, routes]): the info panel
\* state it leaves, given the state before it
ProximityEffect(location, catalogue, panel) ==
    IF ~IsDefined(location) \/ ~IsDefined(catalogue) THEN panel
    ELSE LET closestRoute == ClosestRoute(Get(location), Get(catalogue))
         IN  IF IsDefined(closestRoute)
                /\ WithinMetres(Get(closestRoute).distance, PROXIMITY_THRESHOLD)
             THEN LET routeId == Get(closestRoute).route.properties.id
                      requiresPayment == Get(closestRoute).route.properties.requiresPayment
                      isPaid == isRoutePaid(routeId)
                  IN  IF ~isPaid.threw /\ requiresPayment /\ ~isPaid.value
                      THEN [isOpen        |-> TRUE,
                            view          |-> "route-detail",
                            selectedRoute |-> Some(Get(closestRoute).route),
                            nearbyRoute   |-> closestRoute]
                      ELSE panel
             ELSE panel

\* whether the proximity effect ends with an uncaught exception
ProximityThrows(location, catalogue) ==
    /\ IsDefined(location) /\ IsDefined(catalogue)
    /\ LET closestRoute == ClosestRoute(Get(location), Get(catalogue))
       IN  /\ IsDefined(closestRoute)
           /\ WithinMetres(Get(closestRoute).distance, PROXIMITY_THRESHOLD)
           /\ isRoutePaid(Get(closestRoute).route.properties.id).threw

ErrorOf(threw) == IF threw THEN "TypeError" ELSE "none"

InitialPanel ==
    [isOpen |-> FALSE, view |-> "main", selectedRoute |-> Undefined, nearbyRoute |-> Undefined]

Init ==
    /\ now = 0
    /\ tzOffset \in TzOffsets
    /\ cookie = NoCookie
    /\ userLocation = Undefined
    /\ routes = Undefined
    /\ paidRouteIds = <<>>
    /\ selectedRouteId = Undefined
    /\ infoPanelState = InitialPanel
    /\ lastError = "none"
    /\ taskQueue = <<>>
    /\ oneShot = "pending"
    /\ fixCount = 0
    /\ heldFix = [seq |-> 0, source |-> "none"]

\* time passes
Tick ==
    /\ now < MaxTime
    /\ now' = now + 1
    /\ UNCHANGED <<tzOffset, cookie, userLocation, routes, paidRouteIds,
                   selectedRouteId, infoPanelState, lastError>>
    /\ UNCHANGED geoVars

\* a load after which the proximity effect does not run: the effect
\* depending on [userLocation] alone
RoutesLoadedNoEffect(data) ==
    /\ routes = Undefined
    /\ routes' = Some(data)
    /\ lastError' = "none"
    /\ UNCHANGED <<now, tzOffset, cookie, userLocation, paidRouteIds, selectedRouteId,
                   infoPanelState>>
    /\ UNCHANGED geoVars

\* a load that validates: a catalogue with a duplicated id or a geometry
\* other than LineString, MultiLineString or Point is refused
RoutesLoadedValidated(data) ==
    /\ routes = Undefined
    /\ IF \/ \E i, j \in 1..Len(data) : i # j /\ data[i].properties.id = data[j].properties.id
          \/ \E i \in 1..Len(data) :
                 data[i].geometry.type \notin {"LineString", "MultiLineString", "Point"}
       THEN /\ lastError' = "ValidationError"
            /\ UNCHANGED <<routes, infoPanelState>>
       ELSE /\ routes' = Some(data)
            /\ infoPanelState' = ProximityEffect(userLocation, Some(data), infoPanelState)
            /\ lastError' = ErrorOf(ProximityThrows(userLocation, Some(data)))
    /\ UNCHANGED <<now, tzOffset, cookie, userLocation, paidRouteIds, selectedRouteId>>
    /\ UNCHANGED geoVars

\* the fetch of paid_routes.geojson resolves: setRoutes(data), then the
\* proximity effect runs because routes changed
RoutesLoaded(data) ==
    /\ routes = Undefined
    /\ routes' = Some(data)
    /\ infoPanelState' = ProximityEffect(userLocation, Some(data), infoPanelState)
    /\ lastError' = ErrorOf(ProximityThrows(userLocation, Some(data)))
    /\ UNCHANGED <<now, tzOffset, cookie, userLocation, paidRouteIds, selectedRouteId>>
    /\ UNCHANGED geoVars

\* a location fix that also records the closest route within the threshold
\* as paid
LocationFixMarksPaid(location) ==
    /\ userLocation' = Some(location)
    /\ infoPanelState' = ProximityEffect(Some(location), routes, infoPanelState)
    /\ lastError' = ErrorOf(ProximityThrows(Some(location), routes))
    /\ LET closestRoute == IF IsDefined(routes)
                           THEN ClosestRoute(location, Get(routes)) ELSE Undefined
       IN  cookie' = IF IsDefined(closestRoute)
                        /\ WithinMetres(Get(closestRoute).distance, PROXIMITY_THRESHOLD)
                     THEN markRoutePaid(Get(closestRoute).route.properties.id).cookie
                     ELSE cookie
    /\ UNCHANGED <<now, tzOffset, routes, paidRouteIds, selectedRouteId>>
    /\ UNCHANGED geoVars

\* setUserLocation(location), then the proximity effect runs because
\* userLocation changed
setUserLocation(location) ==
    /\ userLocation' = Some(location)
    /\ infoPanelState' = ProximityEffect(Some(location), routes, infoPanelState)
    /\ lastError' = ErrorOf(ProximityThrows(Some(location), routes))
    /\ UNCHANGED <<now, tzOffset, cookie, routes, paidRouteIds, selectedRouteId>>

\* getCurrentLocation resolves or the watchLocation callback runs with a fix
LocationFix(location) ==
    /\ setUserLocation(location)
    /\ UNCHANGED geoVars

\* routes.features.find(f => f.properties.id === routeId)
FindFeature(features, routeId) ==
    IF \E i \in 1..Len(features) : features[i].properties.id = routeId
    THEN Some(features[CHOOSE i \in 1..Len(features) :
                          /\ features[i].properties.id = routeId
                          /\ \A j \in 1..(i - 1) : features[j].properties.id # routeId])
    ELSE Undefined

\* a tap that keeps the nearby route of the panel state before it
handleRouteClickKeepsNearby(routeId) ==
    /\ IsDefined(routes)
    /\ LET route == FindFeature(Get(routes), routeId)
       IN  IF IsDefined(route)
           THEN /\ selectedRouteId' = Some(routeId)
                /\ infoPanelState' = [isOpen        |-> TRUE,
                                      view          |-> "route-detail",
                                      selectedRoute |-> route,
                                      nearbyRoute   |-> infoPanelState.nearbyRoute]
           ELSE UNCHANGED <<selectedRouteId, infoPanelState>>
    /\ lastError' = "none"
    /\ UNCHANGED <<now, tzOffset, cookie, userLocation, routes, paidRouteIds>>
    /\ UNCHANGED geoVars

\* handleRouteClick: a tap on a route of the map or of the routes list
handleRouteClick(routeId) ==
    /\ IsDefined(routes)
    /\ LET route == FindFeature(Get(routes), routeId)
       IN  IF IsDefined(route)
           THEN /\ selectedRouteId' = Some(routeId)
                /\ infoPanelState' = [isOpen        |-> TRUE,
                                      view          |-> "route-detail",
                                      selectedRoute |-> route,
                                      nearbyRoute   |-> Undefined]
           ELSE UNCHANGED <<selectedRouteId, infoPanelState>>
    /\ lastError' = "none"
    /\ UNCHANGED <<now, tzOffset, cookie, userLocation, routes, paidRouteIds>>
    /\ UNCHANGED geoVars

\* a tap on the empty map that puts the panel back to its initial state
handleMapClickResetsPanel ==
    /\ selectedRouteId' = Undefined
    /\ infoPanelState' = InitialPanel
    /\ lastError' = "none"
    /\ UNCHANGED <<now, tzOffset, cookie, userLocation, routes, paidRouteIds>>
    /\ UNCHANGED geoVars

\* handleMapClick: a tap on the map outside every route
handleMapClick ==
    /\ selectedRouteId' = Undefined
    /\ infoPanelState' = [infoPanelState EXCEPT !.isOpen = FALSE]
    /\ lastError' = "none"
    /\ UNCHANGED <<now, tzOffset, cookie, userLocation, routes, paidRouteIds>>
    /\ UNCHANGED geoVars

handleClosePanel ==
    /\ selectedRouteId' = Undefined
    /\ infoPanelState' = [infoPanelState EXCEPT !.isOpen = FALSE]
    /\ lastError' = "none"
    /\ UNCHANGED <<now, tzOffset, cookie, userLocation, routes, paidRouteIds>>
    /\ UNCHANGED geoVars

handleMenuNavigation(view) ==
    /\ infoPanelState' = [isOpen |-> TRUE, view |-> view,
                          selectedRoute |-> Undefined, nearbyRoute |-> Undefined]
    /\ lastError' = "none"
    /\ UNCHANGED <<now, tzOffset, cookie, userLocation, routes, paidRouteIds, selectedRouteId>>
    /\ UNCHANGED geoVars

\* the buttons of renderRouteDetail act on the route the open panel shows
PanelRoute(routeId) ==
    /\ infoPanelState.isOpen
    /\ infoPanelState.view = "route-detail"
    /\ IsDefined(infoPanelState.selectedRoute)
    /\ Get(infoPanelState.selectedRoute).properties.id = routeId

\* handleMarkPaid: markRoutePaid(routeId); setPaidRouteIds(getPaidRoutes().map(...))
handleMarkPaid(routeId) ==
    /\ PanelRoute(routeId)
    /\ UNCHANGED <<now, tzOffset, userLocation, routes, selectedRouteId, infoPanelState>>
    /\ UNCHANGED geoVars
    /\ LET call == markRoutePaid(routeId)
       IN  /\ cookie' = call.cookie
           /\ lastError' = ErrorOf(call.threw)
           /\ paidRouteIds' = IF call.threw \/ ~getPaidRoutes'.isArray THEN paidRouteIds
                              ELSE MapRouteId(getPaidRoutes'.list)

\* handleUnmarkPaid: unmarkRoutePaid is imported from ./utils/cookies, which
\* exports no such function; the call of the undefined binding throws and
\* the handler ends before getPaidRoutes and setPaidRouteIds
handleUnmarkPaid(routeId) ==
    /\ PanelRoute(routeId)
    /\ lastError' = "TypeError"
    /\ UNCHANGED <<now, tzOffset, cookie, userLocation, routes, paidRouteIds,
                   selectedRouteId, infoPanelState>>
    /\ UNCHANGED geoVars

Next ==
    \/ Tick
    \/ \E data \in Catalogues : RoutesLoaded(data)
    \/ \E location \in Fixes : LocationFix(location)
    \/ \E routeId \in RouteIds : handleRouteClick(routeId)
    \/ handleMapClick
    \/ handleClosePanel
    \/ \E view \in MenuViews : handleMenuNavigation(view)
    \/ \E routeId \in RouteIds : handleMarkPaid(routeId)
    \/ \E routeId \in RouteIds : handleUnmarkPaid(routeId)

Spec == Init /\ [][Next]_vars

\* the page is loaded again: the state of the component starts over, the
\* cookie stays; the mount effect reads the ledger:
\* setPaidRouteIds(getPaidRoutes().map(r => r.routeId)); the catalogue is
\* fetched again and the location sources start again
Reload ==
    /\ userLocation' = Undefined
    /\ routes' = Undefined
    /\ selectedRouteId' = Undefined
    /\ infoPanelState' = InitialPanel
    /\ paidRouteIds' = IF getPaidRoutes.isArray THEN MapRouteId(getPaidRoutes.list) ELSE <<>>
    /\ lastError' = ErrorOf(~getPaidRoutes.isArray)
    /\ taskQueue' = <<>>
    /\ oneShot' = "pending"
    /\ heldFix' = [seq |-> 0, source |-> "none"]
    /\ UNCHANGED <<now, tzOffset, cookie, fixCount>>

ReloadNext ==
    \/ Next
    \/ Reload

ReloadSpec == Init /\ [][ReloadNext]_vars

(***************************************************************************)
(* InfoPanel (src/src/components/InfoPanel.tsx)                            *)
(***************************************************************************)
NearbyMetres == 50

\* the message renderContent / renderRouteDetail put in the panel for the
\* state it is given: "warning", "success", "info"; "none" when the view is
\* not a route detail; "TypeError" when isRoutePaid throws
RenderedMessage ==
    IF infoPanelState.view = "route-detail" /\ IsDefined(infoPanelState.selectedRoute)
    THEN LET routeId == Get(infoPanelState.selectedRoute).properties.id
             isPaid == isRoutePaid(routeId)
             isNearby == /\ IsDefined(infoPanelState.nearbyRoute)
                         /\ WithinMetres(Get(infoPanelState.nearbyRoute).distance, NearbyMetres)
         IN  IF isPaid.threw THEN "TypeError"
             ELSE IF isNearby /\ ~isPaid.value THEN "warning"
             ELSE IF isPaid.value THEN "success"
             ELSE "info"
    ELSE "none"

(***************************************************************************)
(* The ledger on its own: the exported functions of cookies.ts called      *)
(* directly, at any time, with the App left as it is                       *)
(***************************************************************************)
CallMarkRoutePaid(routeId) ==
    /\ LET call == markRoutePaid(routeId)
       IN  /\ cookie' = call.cookie
           /\ lastError' = ErrorOf(call.threw)
    /\ UNCHANGED <<now, tzOffset, userLocation, routes, paidRouteIds,
                   selectedRouteId, infoPanelState>>
    /\ UNCHANGED geoVars

CallClearPaidRoutes ==
    /\ cookie' = clearPaidRoutes
    /\ lastError' = "none"
    /\ UNCHANGED <<now, tzOffset, userLocation, routes, paidRouteIds,
                   selectedRouteId, infoPanelState>>
    /\ UNCHANGED geoVars

LedgerNext ==
    \/ Tick
    \/ \E routeId \in RouteIds : CallMarkRoutePaid(routeId)
    \/ CallClearPaidRoutes

LedgerSpec == Init /\ [][LedgerNext]_vars

\* The stored value is damaged from outside the module (another script, the
\* user, a truncated write): the cookie holds a value markRoutePaid never wrote
Tamper(value) ==
    /\ cookie' = Some([value |-> value, expires |-> getMidnightExpiration(now, tzOffset)])
    /\ lastError' = "none"
    /\ UNCHANGED <<now, tzOffset, userLocation, routes, paidRouteIds,
                   selectedRouteId, infoPanelState>>
    /\ UNCHANGED geoVars

CorruptNext ==
    \/ LedgerNext
    \/ \E value \in CorruptValues : Tamper(value)

CorruptSpec == Init /\ [][CorruptNext]_vars

(***************************************************************************)
(* The location sources in detail (geolocation.ts in src/unnamed/part_000, *)
(* the two location effects of App.tsx).  The device produces fixes,       *)
(* numbered in the order of their production.  getCurrentLocation asks for *)
(* one position (maximumAge 0: a new one) and watchLocation for every      *)
(* position; the browser queues one task per callback, in the order the    *)
(* positions or errors come about, and runs the tasks in that order.       *)
(***************************************************************************)
Task(source, kind, seq, location) ==
    [source |-> source, kind |-> kind, seq |-> seq, location |-> location]

\* the fixes of the detailed model: at the boundary of PR1, and away from every route
FixPlaces == {Fix(2, 5), Fix(5, 5)}

\* watchPosition: the device has a new position for the watch
WatchPosition(location) ==
    /\ fixCount < MaxFixes
    /\ Len(taskQueue) < MaxQueue
    /\ fixCount' = fixCount + 1
    /\ taskQueue' = Append(taskQueue, Task("watchLocation", "position", fixCount + 1, location))
    /\ UNCHANGED <<now, tzOffset, cookie, appVars, lastError, oneShot, heldFix>>

\* getCurrentPosition: the device has the new position the one request waits for
OneShotPosition(location) ==
    /\ oneShot = "pending"
    /\ fixCount < MaxFixes
    /\ Len(taskQueue) < MaxQueue
    /\ fixCount' = fixCount + 1
    /\ taskQueue' = Append(taskQueue,
                           Task("getCurrentLocation", "position", fixCount + 1, location))
    /\ oneShot' = "queued"
    /\ UNCHANGED <<now, tzOffset, cookie, appVars, lastError, heldFix>>

\* watchPosition fails (permission, position unavailable, timeout): the error
\* callback is queued; the watch goes on
WatchError ==
    /\ Len(taskQueue) < MaxQueue
    /\ taskQueue' = Append(taskQueue, Task("watchLocation", "error", 0, Fix(0, 0)))
    /\ UNCHANGED <<now, tzOffset, cookie, appVars, lastError, oneShot, fixCount, heldFix>>

\* getCurrentPosition fails: the error callback is queued
OneShotError ==
    /\ oneShot = "pending"
    /\ Len(taskQueue) < MaxQueue
    /\ taskQueue' = Append(taskQueue, Task("getCurrentLocation", "error", 0, Fix(0, 0)))
    /\ oneShot' = "queued"
    /\ UNCHANGED <<now, tzOffset, cookie, appVars, lastError, fixCount, heldFix>>

\* the callbacks run in any order: a task anywhere in the queue is taken
DeliverPositionAnyOrder ==
    \E i \in 1..Len(taskQueue) :
        /\ taskQueue[i].kind = "position"
        /\ setUserLocation(taskQueue[i].location)
        /\ heldFix' = [seq |-> taskQueue[i].seq, source |-> taskQueue[i].source]
        /\ taskQueue' = SubSeq(taskQueue, 1, i - 1) \o SubSeq(taskQueue, i + 1, Len(taskQueue))
        /\ oneShot' = IF taskQueue[i].source = "getCurrentLocation" THEN "resolved" ELSE oneShot
        /\ UNCHANGED fixCount

\* the oldest task is a success callback: the promise of getCurrentLocation
\* resolves and its then-callback runs, or the callback given to
\* watchLocation runs; either one is setUserLocation(location)
DeliverPosition ==
    /\ taskQueue # <<>>
    /\ Head(taskQueue).kind = "position"
    /\ setUserLocation(Head(taskQueue).location)
    /\ heldFix' = [seq |-> Head(taskQueue).seq, source |-> Head(taskQueue).source]
    /\ taskQueue' = Tail(taskQueue)
    /\ oneShot' = IF Head(taskQueue).source = "getCurrentLocation" THEN "resolved" ELSE oneShot
    /\ UNCHANGED fixCount

\* an error callback that forgets the location and closes the panel
DeliverErrorResets ==
    /\ taskQueue # <<>>
    /\ Head(taskQueue).kind = "error"
    /\ taskQueue' = Tail(taskQueue)
    /\ oneShot' = IF Head(taskQueue).source = "getCurrentLocation" THEN "rejected" ELSE oneShot
    /\ userLocation' = Undefined
    /\ infoPanelState' = [infoPanelState EXCEPT !.isOpen = FALSE]
    /\ lastError' = "none"
    /\ UNCHANGED <<now, tzOffset, cookie, routes, paidRouteIds, selectedRouteId,
                   fixCount, heldFix>>

\* the oldest task is an error callback: the promise of getCurrentLocation
\* rejects and .catch(console.error) runs, or the error callback given to
\* watchLocation runs; either one only writes to the console
DeliverError ==
    /\ taskQueue # <<>>
    /\ Head(taskQueue).kind = "error"
    /\ taskQueue' = Tail(taskQueue)
    /\ oneShot' = IF Head(taskQueue).source = "getCurrentLocation" THEN "rejected" ELSE oneShot
    /\ lastError' = "none"
    /\ UNCHANGED <<now, tzOffset, cookie, appVars, fixCount, heldFix>>

GeoNext ==
    \/ \E data \in Catalogues : RoutesLoaded(data)
    \/ \E location \in FixPlaces : WatchPosition(location)
    \/ \E location \in FixPlaces : OneShotPosition(location)
    \/ WatchError
    \/ OneShotError
    \/ DeliverPosition
    \/ DeliverError
    \/ \E routeId \in RouteIds : handleRouteClick(routeId)
    \/ handleClosePanel
    \/ \E routeId \in RouteIds : handleMarkPaid(routeId)

GeoSpec == Init /\ [][GeoNext]_vars

(***************************************************************************)
(* The App with a catalogue of one two-vertex line and fixes all around it *)
(***************************************************************************)
SegmentNext ==
    \/ \E data \in SegmentCatalogues : RoutesLoaded(data)
    \/ \E location \in ProbeFixes : LocationFix(location)

SegmentSpec == Init /\ [][SegmentNext]_vars

(***************************************************************************)
(* The App over every catalogue the fetch may deliver, at one moment of    *)
(* time                                                                    *)
(***************************************************************************)
CatalogueNext ==
    \/ \E data \in LoadableCatalogues : RoutesLoaded(data)
    \/ \E location \in Fixes : LocationFix(location)
    \/ \E routeId \in LoadableRouteIds : handleRouteClick(routeId)
    \/ handleClosePanel
    \/ \E routeId \in LoadableRouteIds : handleMarkPaid(routeId)

CatalogueSpec == Init /\ [][CatalogueNext]_vars

(***************************************************************************)
(* Properties of the ledger                                                *)
(***************************************************************************)
\* the marks the cookie jar physically holds now, read off the raw cookie
StoredMarks ==
    IF cookie = NoCookie \/ now >= Get(cookie).expires \/ Get(cookie).value.text # "array"
    THEN {}
    ELSE {Get(cookie).value.items[i] : i \in 1..Len(Get(cookie).value.items)}

MarksOf(routeId) == {mark \in StoredMarks : mark.routeId = routeId}

\* C5: a paid mark is valid for exactly the local calendar date of its
\* creation: while time passes, a route that is paid stays paid as long as the
\* local date is the same, and is unpaid as soon as the local date has changed.
C5_ValidForLocalDay ==
    [][\A routeId \in RouteIds :
          (Tick /\ isRoutePaid(routeId).value)
              => (isRoutePaid(routeId).value'
                     <=> LocalDate(now', tzOffset') = LocalDate(now, tzOffset))]_vars

\* C6: isRoutePaid(routeId) is true if and only if the store holds a mark
\* whose routeId is routeId and whose paidDate is today; a stored mark of
\* another date, or of another route, does not make it true.
C6_PaidIffMarkOfToday ==
    \A routeId \in RouteIds :
        isRoutePaid(routeId) =
            Returned(\E mark \in StoredMarks :
                        mark.routeId = routeId /\ mark.paidDate = ISODate(now))

\* a mark of an earlier date is physically stored, and its route reads unpaid,
\* while the mark of another route is of today
C6_Witness ==
    \E a \in RouteIds, b \in RouteIds :
        /\ a # b
        /\ \E mark \in MarksOf(a) : mark.paidDate # ISODate(now)
        /\ ~isRoutePaid(a).value
        /\ isRoutePaid(b).value

\* C7: whatever the ledger held before, markRoutePaid(id) followed
\* immediately by isRoutePaid(id) returns true.
C7_MarkThenPaid ==
    [][\A routeId \in RouteIds :
          CallMarkRoutePaid(routeId) => isRoutePaid(routeId)' = Returned(TRUE)]_vars

\* a route is paid whose mark was rewritten after an older mark of the same
\* route and beside the older mark of another route
C7_Witness ==
    \E a \in RouteIds, b \in RouteIds :
        /\ a # b
        /\ isRoutePaid(a).value
        /\ \E mark \in MarksOf(b) : mark.paidDate # ISODate(now)
        /\ ISODate(now) > 0

\* C9: the store holds at most one mark per route; right after
\* markRoutePaid(id) the mark of id carries today's date; and a second
\* markRoutePaid(id) leaves the store exactly as the first left it.
AtMostOneMarkPerRoute ==
    /\ \A routeId \in RouteIds : Cardinality(MarksOf(routeId)) <= 1
    /\ cookie # NoCookie /\ Get(cookie).value.text = "array"
          => \A i, j \in 1..Len(Get(cookie).value.items) :
                Get(cookie).value.items[i].routeId = Get(cookie).value.items[j].routeId
                    => i = j

C9_OneMarkIdempotent ==
    [][/\ AtMostOneMarkPerRoute'
       /\ \A routeId \in RouteIds :
             CallMarkRoutePaid(routeId) =>
                /\ MarksOf(routeId)' = {[routeId |-> routeId, paidDate |-> ISODate(now')]}
                /\ markRoutePaid(routeId)' = [threw |-> FALSE, cookie |-> cookie']]_vars

\* three routes are marked, one of them re-marked on a later date
C9_Witness ==
    /\ \A routeId \in RouteIds : Cardinality(MarksOf(routeId)) = 1
    /\ \E a \in RouteIds, b \in RouteIds :
          /\ \E mark \in MarksOf(a) : mark.paidDate = ISODate(now)
          /\ \E mark \in MarksOf(b) : mark.paidDate # ISODate(now)
          /\ Get(cookie).value.items[Len(Get(cookie).value.items)].routeId = a

\* C10: a stored value that is no serialised sequence of marks reads as "no
\* marks": getPaidRoutes yields [], isRoutePaid returns false without
\* throwing, and markRoutePaid succeeds.
C10_CorruptReadsAsEmpty ==
    (FindCookie # NoCookie /\ Get(FindCookie).value \in CorruptValues) =>
        /\ getPaidRoutes = ArrayValue(<<>>)
        /\ \A routeId \in RouteIds :
              /\ isRoutePaid(routeId) = Returned(FALSE)
              /\ ~markRoutePaid(routeId).threw

(***************************************************************************)
(* Properties of the proximity check                                       *)
(***************************************************************************)
\* the distance of a fix to the i-th route of a catalogue
DistanceTo(location, features, i) ==
    distanceToGeometry(location.latitude, location.longitude, features[i].geometry)

\* the routes at the least distance of all, as indexes of the catalogue
NearestIndexes(location, features) ==
    {i \in 1..Len(features) :
        /\ DistanceTo(location, features, i) # Infinity
        /\ \A j \in 1..Len(features) :
              ~Less(DistanceTo(location, features, j), DistanceTo(location, features, i))}

\* the nearest route: the first of the catalogue among those at the least distance
NearestIndexOf(location, features) ==
    CHOOSE i \in NearestIndexes(location, features) :
        \A j \in NearestIndexes(location, features) : i <= j

\* for every catalogue and fix of the model: whether the fix has a nearest
\* route within 50 m (50 included), and which route that is
NearestTable ==
    [features \in LoadableCatalogues |->
        [location \in Fixes |->
            IF NearestIndexes(location, features) = {}
            THEN [within |-> FALSE, index |-> 0]
            ELSE LET i == NearestIndexOf(location, features)
                     d == DistanceTo(location, features, i)
                 IN  [within |-> d.num <= 2500 * d.den, index |-> i]]]

NearWithin(location, features) == NearestTable[features][location].within

NearestIndex(location, features) == NearestTable[features][location].index

\* the fix is within 50 m of its nearest route, which requires payment and
\* is not paid for today
WarningCase(location, features) ==
    /\ NearWithin(location, features)
    /\ features[NearestIndex(location, features)].properties.requiresPayment
    /\ isRoutePaid(features[NearestIndex(location, features)].properties.id) = Returned(FALSE)

\* the fix is within 50 m of its nearest route, which requires no payment or
\* is paid for today
InfoCase(location, features) ==
    /\ NearWithin(location, features)
    /\ \/ ~features[NearestIndex(location, features)].properties.requiresPayment
       \/ isRoutePaid(features[NearestIndex(location, features)].properties.id) = Returned(TRUE)

\* C1: a fix processed with a loaded catalogue, whose nearest route is within
\* 50 m (50 included), requires payment and is unpaid, opens the panel in
\* 'route-detail' on that route, with nearbyRoute carrying the route and its
\* distance, and the panel renders the warning.
C1_ShowWarning ==
    [][\A location \in Fixes :
          (LocationFix(location) /\ IsDefined(routes) /\ WarningCase(location, Get(routes)))
          => LET features == Get(routes)
                 i == NearestIndex(location, features)
             IN  /\ infoPanelState'.isOpen
                 /\ infoPanelState'.view = "route-detail"
                 /\ infoPanelState'.selectedRoute = Some(features[i])
                 /\ IsDefined(infoPanelState'.nearbyRoute)
                 /\ Get(infoPanelState'.nearbyRoute).route = features[i]
                 /\ Get(infoPanelState'.nearbyRoute).distance = DistanceTo(location, features, i)
                 /\ RenderedMessage' = "warning"]_vars

\* the warning is shown for a route exactly 50 m away
C1_Witness ==
    /\ userLocation = Some(Fix(2, 5))
    /\ infoPanelState.isOpen
    /\ RenderedMessage = "warning"
    /\ IsDefined(infoPanelState.nearbyRoute)
    /\ Get(infoPanelState.nearbyRoute).route.properties.id = "PR1"
    /\ Get(infoPanelState.nearbyRoute).distance = [num |-> 2500, den |-> 1]

\* C2: a fix whose nearest route is within 50 m and requires no payment or
\* is paid for today makes the panel show that route (show-info).
C2_ShowInfo ==
    [][\A location \in Fixes :
          (LocationFix(location) /\ IsDefined(routes) /\ InfoCase(location, Get(routes)))
          => /\ infoPanelState'.isOpen
             /\ infoPanelState'.view = "route-detail"
             /\ infoPanelState'.selectedRoute =
                   Some(Get(routes)[NearestIndex(location, Get(routes))])]_vars

\* the open panel shows the route the user selected by a tap
ShowsSelection ==
    /\ IsDefined(selectedRouteId)
    /\ infoPanelState.isOpen
    /\ infoPanelState.view = "route-detail"
    /\ IsDefined(infoPanelState.selectedRoute)
    /\ Get(infoPanelState.selectedRoute).properties.id = Get(selectedRouteId)

\* C3: while the panel shows the route selected by a tap, no location fix
\* changes the route the panel shows.
C3_NeverOverrides ==
    [][\A location \in Fixes :
          (LocationFix(location) /\ ShowsSelection)
          => infoPanelState'.selectedRoute = infoPanelState.selectedRoute]_vars

\* C3 as amended: while the panel shows the route selected by a tap, a
\* location fix changes the panel only in the warning case (nearest route
\* within 50 m, requiring payment, unpaid), and then to that nearest route;
\* every other fix leaves the panel state as it is; the selection stays.
C3_OverridesOnlyToWarn ==
    [][\A location \in Fixes :
          (LocationFix(location) /\ ShowsSelection)
          => /\ selectedRouteId' = selectedRouteId
             /\ IF WarningCase(location, Get(routes))
                THEN infoPanelState'.selectedRoute =
                        Some(Get(routes)[NearestIndex(location, Get(routes))])
                ELSE infoPanelState' = infoPanelState]_vars

\* a fix has replaced the route selected by a tap with another route
C3_Witness ==
    /\ IsDefined(selectedRouteId)
    /\ IsDefined(userLocation)
    /\ infoPanelState.isOpen
    /\ infoPanelState.view = "route-detail"
    /\ IsDefined(infoPanelState.nearbyRoute)
    /\ Get(infoPanelState.selectedRoute).properties.id # Get(selectedRouteId)

\* C4: the proximity evaluation never changes the stored marks: a fix, and
\* the arrival of the catalogue, leave the cookie as it is; the cookie is
\* written only by handleMarkPaid and handleUnmarkPaid.
C4_FixKeepsLedger ==
    [][/\ ((\E location \in Fixes : LocationFix(location))
              \/ (\E data \in Catalogues : RoutesLoaded(data)))
          => (cookie' = cookie /\ StoredMarks' = StoredMarks)
       /\ cookie' # cookie
          => \E routeId \in RouteIds : handleMarkPaid(routeId) \/ handleUnmarkPaid(routeId)]_vars

\* a fix within 50 m of a route has been processed while the ledger holds marks
C4_Witness ==
    /\ IsDefined(userLocation) /\ IsDefined(routes)
    /\ NearWithin(Get(userLocation), Get(routes))
    /\ StoredMarks # {}
    /\ \E routeId \in RouteIds : ~isRoutePaid(routeId).value /\ MarksOf(routeId) = {}

\* C8: handleUnmarkPaid(routeId) removes the mark of routeId whatever its
\* date, so that the route reads unpaid right afterwards, and leaves the
\* marks of the other routes.
C8_UnmarkRemoves ==
    [][\A routeId \in RouteIds :
          handleUnmarkPaid(routeId)
          => /\ MarksOf(routeId)' = {}
             /\ isRoutePaid(routeId)' = Returned(FALSE)
             /\ \A other \in RouteIds \ {routeId} : MarksOf(other)' = MarksOf(other)]_vars

(***************************************************************************)
(* Properties of the nearest-route scan                                    *)
(***************************************************************************)
\* C11: with a fix and a catalogue present, the scan of the proximity effect
\* yields a route at the least distance of all routes together with that
\* distance; of several routes at that least distance it yields the one that
\* comes first in the catalogue; where no route has a finite distance it
\* yields none.
C11_NearestFirstOnTie ==
    (IsDefined(userLocation) /\ IsDefined(routes))
        => LET location == Get(userLocation)
               features == Get(routes)
               i == NearestIndex(location, features)
           IN  ClosestRoute(location, features) =
                   IF i = 0 THEN Undefined
                   ELSE Some([route    |-> features[i],
                              distance |-> DistanceTo(location, features, i)])

\* a fix at the same least distance from two routes, the second of which is
\* PR1: the scan has chosen the first, PR9
C11_Witness ==
    /\ IsDefined(userLocation) /\ IsDefined(routes)
    /\ Cardinality(NearestIndexes(Get(userLocation), Get(routes))) = 2
    /\ Get(routes)[1] = PR9
    /\ ClosestRoute(Get(userLocation), Get(routes)) # Undefined
    /\ Get(ClosestRoute(Get(userLocation), Get(routes))).route = PR9

C16_ErrorKeepsState ==
    [][DeliverError => UNCHANGED <<userLocation, infoPanelState, selectedRouteId,
                                   routes, paidRouteIds, cookie>>]_vars

\* getCurrentLocation has been rejected while the location of an earlier fix
\* of the watch, an open panel, a selection and a paid mark are in place
C16_Witness ==
    /\ oneShot = "rejected"
    /\ heldFix.source = "watchLocation"
    /\ IsDefined(userLocation)
    /\ infoPanelState.isOpen
    /\ IsDefined(selectedRouteId)
    /\ StoredMarks # {}

(***************************************************************************)
(* Properties of the App: distance, payment, taps                          *)
(***************************************************************************)
\* C13: a fix farther than 50 m from every route of the loaded catalogue
\* yields no action, whatever the ledger holds and whatever the routes
\* require: the proximity effect leaves the info panel state and the
\* selection exactly as they were.
C13_FarFixNoAction ==
    [][\A location \in Fixes :
          (LocationFix(location) /\ IsDefined(routes) /\ ~NearWithin(location, Get(routes)))
          => /\ infoPanelState' = infoPanelState
             /\ selectedRouteId' = selectedRouteId]_vars

\* a fix beyond 50 m of every route has been processed while a route that
\* requires payment is unpaid and another is paid; the panel is closed
C13_Witness ==
    /\ IsDefined(userLocation) /\ IsDefined(routes)
    /\ ~NearWithin(Get(userLocation), Get(routes))
    /\ isRoutePaid("PR1") = Returned(FALSE)
    /\ isRoutePaid("PR6") = Returned(TRUE)
    /\ ~infoPanelState.isOpen

\* C14: a route that requires no payment never gets the warning: in every
\* reachable state, the panel renders the warning only for a route whose
\* requiresPayment is true; and a fix whose nearest route within 50 m
\* requires no payment does not put that route in the panel as a nearby route.
C14_NoWarningForFreeRoute ==
    [][/\ (RenderedMessage' = "warning")
              => Get(infoPanelState'.selectedRoute).properties.requiresPayment
       /\ \A location \in Fixes :
              (/\ LocationFix(location) /\ IsDefined(routes)
               /\ NearWithin(location, Get(routes))
               /\ ~Get(routes)[NearestIndex(location, Get(routes))].properties.requiresPayment)
              => infoPanelState' = infoPanelState]_vars

\* on the free route PR9, unpaid, with PR9 in the open panel: the panel
\* renders the plain information
C14_Witness ==
    /\ userLocation = Some(Fix(10, 2))
    /\ infoPanelState.isOpen
    /\ infoPanelState.view = "route-detail"
    /\ infoPanelState.selectedRoute = Some(PR9)
    /\ isRoutePaid("PR9") = Returned(FALSE)
    /\ RenderedMessage = "info"

\* C15: a tap on a route of the loaded catalogue always shows plain
\* information: the panel is open in 'route-detail' on the tapped route,
\* selectedRouteId is the tapped id, the panel state carries no nearby route,
\* and the warning is not rendered, also when the user is within 50 m of
\* that route and it is unpaid.
C15_TapShowsInfo ==
    [][\A routeId \in RouteIds :
          (handleRouteClick(routeId) /\ IsDefined(FindFeature(Get(routes), routeId)))
          => /\ infoPanelState'.isOpen
             /\ infoPanelState'.view = "route-detail"
             /\ infoPanelState'.selectedRoute = FindFeature(Get(routes), routeId)
             /\ infoPanelState'.nearbyRoute = Undefined
             /\ selectedRouteId' = Some(routeId)
             /\ RenderedMessage' # "warning"]_vars

\* the user stands 50 m from PR1, unpaid, and has tapped PR1: no nearby
\* route in the panel state, plain information rendered
C15_Witness ==
    /\ userLocation = Some(Fix(2, 5))
    /\ IsDefined(routes)
    /\ selectedRouteId = Some("PR1")
    /\ infoPanelState.isOpen
    /\ infoPanelState.selectedRoute = Some(PR1)
    /\ infoPanelState.nearbyRoute = Undefined
    /\ isRoutePaid("PR1") = Returned(FALSE)
    /\ RenderedMessage = "info"

(***************************************************************************)
(* Properties of the load of the catalogue                                 *)
(***************************************************************************)
\* two routes of the catalogue share an id
HasDuplicateIds(features) ==
    \E i, j \in 1..Len(features) :
        i # j /\ features[i].properties.id = features[j].properties.id

\* a route of the catalogue has a geometry of a type the distance helpers
\* do not handle
HasUnsupportedGeometry(features) ==
    \E i \in 1..Len(features) :
        features[i].geometry.type \notin {"LineString", "MultiLineString", "Point"}

WrittenMarkIds ==
    IF cookie = NoCookie \/ Get(cookie).value.text # "array" THEN {}
    ELSE {Get(cookie).value.items[i].routeId : i \in 1..Len(Get(cookie).value.items)}

\* the local calendar day on which the cookie was written last: the day
\* that ends when the cookie expires
WrittenOnLocalDay == LocalDate(Get(cookie).expires - 1, tzOffset)

\* C18: a paid mark survives a reload within the calendar day it was made
\* on: after a reload at a later moment of that day the route is paid
\* (isRoutePaid) and its id is among paidRouteIds; after a reload on a later
\* day it is in neither.
C18_MarkSurvivesReload ==
    [][\A routeId \in RouteIds :
          (Reload /\ routeId \in WrittenMarkIds)
          => IF LocalDate(now, tzOffset) = WrittenOnLocalDay
             THEN /\ isRoutePaid(routeId)' = Returned(TRUE)
                  /\ \E i \in 1..Len(paidRouteIds') : paidRouteIds'[i] = routeId
             ELSE /\ isRoutePaid(routeId)' = Returned(FALSE)
                  /\ \A i \in 1..Len(paidRouteIds') : paidRouteIds'[i] # routeId]_vars

\* C19: a closed panel comes back: whenever the panel is closed (by
\* handleClosePanel or a tap on the map, any number of times) and a fix
\* arrives whose nearest route is within 50 m, requires payment and is
\* unpaid, the panel is open again on that route and renders the warning.
C19_ClosedPanelReappears ==
    [][\A location \in Fixes :
          (/\ LocationFix(location) /\ IsDefined(routes)
           /\ ~infoPanelState.isOpen
           /\ WarningCase(location, Get(routes)))
          => /\ infoPanelState'.isOpen
             /\ infoPanelState'.view = "route-detail"
             /\ infoPanelState'.selectedRoute =
                   Some(Get(routes)[NearestIndex(location, Get(routes))])
             /\ RenderedMessage' = "warning"]_vars

\* the user has closed the panel that warned about PR1 (the closed panel
\* still holds PR1 as the nearby route) and stands within 50 m of PR1,
\* which is still unpaid: the next fix is the case of the claim
C19_Witness ==
    /\ ~infoPanelState.isOpen
    /\ IsDefined(infoPanelState.nearbyRoute)
    /\ Get(infoPanelState.nearbyRoute).route = PR1
    /\ IsDefined(userLocation) /\ IsDefined(routes)
    /\ WarningCase(Get(userLocation), Get(routes))
    /\ Get(routes)[NearestIndex(Get(userLocation), Get(routes))] = PR1

(***************************************************************************)
(* Properties of a catalogue with an unsupported geometry                  *)
(***************************************************************************)
IsSupported(feature) ==
    feature.geometry.type \in {"LineString", "MultiLineString", "Point"}

\* C20: a route whose geometry type is not supported has the distance
\* Infinity from every fix and nothing is thrown; it is never the route the
\* scan selects and never the nearby route of the panel; and the scan of the
\* catalogue gives the same route and distance as the scan of the catalogue
\* with the unsupported routes taken out, wherever they stand.
C20_UnsupportedGeometryIgnored ==
    (IsDefined(userLocation) /\ IsDefined(routes))
        => LET location == Get(userLocation)
               features == Get(routes)
               closestRoute == ClosestRoute(location, features)
           IN  /\ \A i \in 1..Len(features) :
                      ~IsSupported(features[i])
                          => DistanceTo(location, features, i) = Infinity
               /\ lastError = "none"
               /\ IsDefined(closestRoute) => IsSupported(Get(closestRoute).route)
               /\ IsDefined(infoPanelState.nearbyRoute)
                      => IsSupported(Get(infoPanelState.nearbyRoute).route)
               /\ closestRoute = ClosestRoute(location, SelectSeq(features, IsSupported))

\* the fix lies inside the polygon of PRX, the first route of the catalogue;
\* the scan has selected PR1, 50 m away, and the panel warns about PR1
C20_Witness ==
    /\ userLocation = Some(Fix(2, 5))
    /\ IsDefined(routes)
    /\ Len(Get(routes)) = 4
    /\ Get(routes)[1] = PRX
    /\ ClosestRoute(Fix(2, 5), Get(routes)) =
           Some([route |-> PR1, distance |-> [num |-> 2500, den |-> 1]])
    /\ IsDefined(infoPanelState.nearbyRoute)
    /\ Get(infoPanelState.nearbyRoute).route = PR1

(***************************************************************************)
(* Properties of an empty catalogue                                        *)
(***************************************************************************)
\* C21: with an empty catalogue loaded, the scan finds no route for any fix
\* (closestRoute stays null, no route has a finite distance), and no fix
\* opens or changes the info panel.
C21_EmptyCatalogueNoAction ==
    [][\A location \in Fixes :
          (LocationFix(location) /\ routes = Some(<<>>))
          => /\ ClosestRoute(location, <<>>) = Undefined
             /\ NearestIndexes(location, <<>>) = {}
             /\ infoPanelState' = infoPanelState
             /\ selectedRouteId' = selectedRouteId]_vars

\* a fix has been processed with the empty catalogue loaded; the panel is
\* as it was at the start
C21_Witness ==
    /\ routes = Some(<<>>)
    /\ userLocation = Some(Fix(2, 5))
    /\ infoPanelState = InitialPanel

(***************************************************************************)
(* Properties of the distance to a segment                                 *)
(***************************************************************************)
\* a catalogue of one two-vertex line is loaded and a fix has arrived
SegmentProbed ==
    /\ IsDefined(userLocation)
    /\ IsDefined(routes)
    /\ Get(routes) \in SegmentCatalogues

\* the two vertices of the loaded line
SegmentLine == Get(routes)[1].geometry.lines[1]

\* distanceToSegment from the fix to the loaded line
SegmentDistance ==
    distanceToSegment(Get(userLocation).longitude, Get(userLocation).latitude,
                      SegmentLine[1][1], SegmentLine[1][2],
                      SegmentLine[2][1], SegmentLine[2][2])

\* the distance from the fix to the point first + (num / den) * (second - first)
DistanceToPointAt(num, den) ==
    calculateDistance(Get(userLocation).latitude * den, Get(userLocation).longitude * den,
                      SegmentLine[1][2] * den + num * (SegmentLine[2][2] - SegmentLine[1][2]),
                      SegmentLine[1][1] * den + num * (SegmentLine[2][1] - SegmentLine[1][1]),
                      den)

\* C22: for a line whose two vertices coincide, the distance to the segment
\* is the point-to-point distance to that vertex, it is not NaN, and it is
\* what distanceToGeometry and the scan give for the route.
C22_ZeroLengthSegment ==
    (SegmentProbed /\ SegmentLine[1] = SegmentLine[2])
        => /\ SegmentDistance # NaN
           /\ SegmentDistance = DistanceToPointAt(0, 1)
           /\ distanceToGeometry(Get(userLocation).latitude, Get(userLocation).longitude,
                                 Get(routes)[1].geometry) = DistanceToPointAt(0, 1)
           /\ ClosestRoute(Get(userLocation), Get(routes)) =
                  Some([route |-> Get(routes)[1], distance |-> DistanceToPointAt(0, 1)])

\* the line is the single point <<1, 1>>, the fix is one unit away in both
\* axes, and the panel carries the point-to-point distance
C22_Witness ==
    /\ routes = Some(<<SegmentRoute(<<1, 1>>, <<1, 1>>)>>)
    /\ userLocation = Some(Fix(2, 2))
    /\ IsDefined(infoPanelState.nearbyRoute)
    /\ Get(infoPanelState.nearbyRoute).distance = calculateDistance(2, 2, 1, 1, 1)

\* C23: for a segment of positive length the distance is measured to the
\* point first + t * (second - first) with t = dot / lenSq clamped to
\* [0, 1]: the first endpoint when dot < 0, the second when dot > lenSq, the
\* projection otherwise; the point lies on the segment, and no endpoint or
\* dividing point of the segment is closer to the fix.
C23_ParamClamped ==
    (SegmentProbed /\ SegmentLine[1] # SegmentLine[2])
        => LET C == SegmentLine[2][1] - SegmentLine[1][1]
               D == SegmentLine[2][2] - SegmentLine[1][2]
               dot == (Get(userLocation).longitude - SegmentLine[1][1]) * C
                          + (Get(userLocation).latitude - SegmentLine[1][2]) * D
               lenSq == C * C + D * D
               t == IF dot < 0 THEN [num |-> 0, den |-> 1]
                    ELSE IF dot > lenSq THEN [num |-> 1, den |-> 1]
                    ELSE [num |-> dot, den |-> lenSq]
           IN  /\ 0 <= t.num /\ t.num <= t.den
               /\ SegmentDistance = DistanceToPointAt(t.num, t.den)
               /\ \A k \in 0..SegSamples :
                      ~Less(DistanceToPointAt(k, SegSamples), SegmentDistance)

\* the fix lies beyond the second endpoint of the line from <<0, 0>> to
\* <<2, 0>>: the panel carries the distance to that endpoint
C23_Witness ==
    /\ routes = Some(<<SegmentRoute(<<0, 0>>, <<2, 0>>)>>)
    /\ userLocation = Some(Fix(3, 1))
    /\ IsDefined(infoPanelState.nearbyRoute)
    /\ Get(infoPanelState.nearbyRoute).distance = calculateDistance(1, 3, 0, 2, 1)

(***************************************************************************)
(* Properties of the App state as a whole                                  *)
(***************************************************************************)
\* C24: the paid colouring of the map agrees with the ledger: in every
\* reachable state a route id is among paidRouteIds if and only if
\* isRoutePaid(id) returns true.
C24_PaidIdsAgreeWithLedger ==
    \A routeId \in RouteIds :
        (\E i \in 1..Len(paidRouteIds) : paidRouteIds[i] = routeId)
            <=> (isRoutePaid(routeId) = Returned(TRUE))

\* C25: the panel and the highlight of the map agree: in every reachable
\* state with a selected route and the panel open in 'route-detail', the
\* route the panel shows is the selected one.
C25_PanelMatchesSelection ==
    (/\ IsDefined(selectedRouteId)
     /\ infoPanelState.isOpen
     /\ infoPanelState.view = "route-detail")
        => /\ IsDefined(infoPanelState.selectedRoute)
           /\ Get(infoPanelState.selectedRoute).properties.id = Get(selectedRouteId)

\* C26: no stale warning: in every reachable state in which the panel
\* renders the warning for a route, the location held is within 50 m of
\* that route, the route is the nearest one to it, and the nearby distance
\* of the panel state is the distance from that location to the route.
C26_NoStaleWarning ==
    (RenderedMessage = "warning")
        => /\ IsDefined(userLocation) /\ IsDefined(routes)
           /\ LET location == Get(userLocation)
                  features == Get(routes)
                  i == NearestIndex(location, features)
              IN  /\ NearWithin(location, features)
                  /\ Get(infoPanelState.nearbyRoute).route = features[i]
                  /\ Get(infoPanelState.nearbyRoute).distance = DistanceTo(location, features, i)

\* C27: the proximity check does not depend on which of the first fix and
\* the catalogue arrives first: when the catalogue arrives while a fix is
\* held, the check runs for that fix, and in the warning case the panel
\* opens on the nearest route with the warning; while the catalogue is
\* missing a fix leaves the panel state as it is, and so does the arrival of
\* the catalogue while no fix is held.
C27_ArrivalOrderIrrelevant ==
    [][/\ \A data \in Catalogues :
              RoutesLoaded(data)
              => IF IsDefined(userLocation) /\ WarningCase(Get(userLocation), data)
                 THEN /\ infoPanelState'.isOpen
                      /\ infoPanelState'.view = "route-detail"
                      /\ infoPanelState'.selectedRoute =
                            Some(data[NearestIndex(Get(userLocation), data)])
                      /\ RenderedMessage' = "warning"
                 ELSE infoPanelState' = infoPanelState
       /\ \A location \in Fixes :
              (LocationFix(location) /\ ~IsDefined(routes))
              => infoPanelState' = infoPanelState]_vars

\* a fix 50 m from the unpaid pay-route PR1 is held while the catalogue has
\* not arrived yet; the panel is closed
C27_Witness ==
    /\ userLocation = Some(Fix(2, 5))
    /\ routes = Undefined
    /\ ~infoPanelState.isOpen
    /\ isRoutePaid("PR1") = Returned(FALSE)

(***************************************************************************)
(* Frame properties                                                        *)
(***************************************************************************)
\* C28: markRoutePaid(A) touches the mark of A only: for every other route
\* B, the stored mark of B (whether there is one, and its paidDate) and the
\* value of isRoutePaid(B) are after the call what they were before it.
C28_MarkLeavesOtherRoutes ==
    [][\A routeId \in RouteIds :
          CallMarkRoutePaid(routeId)
          => \A other \in RouteIds \ {routeId} :
                /\ MarksOf(other)' = MarksOf(other)
                /\ isRoutePaid(other)' = isRoutePaid(other)]_vars

\* PR1 has been marked last, today, beside the mark of PR6 made on an
\* earlier date, which is still stored
C28_Witness ==
    /\ Cardinality(StoredMarks) = 2
    /\ Get(cookie).value.items[2] = [routeId |-> "PR1", paidDate |-> ISODate(now)]
    /\ Get(cookie).value.items[1].routeId = "PR6"
    /\ Get(cookie).value.items[1].paidDate # ISODate(now)

\* C29: closing the panel and tapping the empty map do the same: a step is
\* one of them exactly when it is the other; selectedRouteId becomes null
\* and isOpen false, while the view, selectedRoute and nearbyRoute of the
\* panel state, the cookie, paidRouteIds, userLocation and the catalogue stay.
C29_CloseAndMapClickAlike ==
    [][/\ handleClosePanel <=> handleMapClick
       /\ (handleClosePanel \/ handleMapClick)
              => /\ selectedRouteId' = Undefined
                 /\ ~infoPanelState'.isOpen
                 /\ infoPanelState'.view = infoPanelState.view
                 /\ infoPanelState'.selectedRoute = infoPanelState.selectedRoute
                 /\ infoPanelState'.nearbyRoute = infoPanelState.nearbyRoute
                 /\ UNCHANGED <<cookie, paidRouteIds, userLocation, routes>>]_vars

\* the panel that warned about a route has been closed beside a paid mark:
\* no selection, the panel closed, its view, route and nearby route kept
C29_Witness ==
    /\ selectedRouteId = Undefined
    /\ ~infoPanelState.isOpen
    /\ infoPanelState.view = "route-detail"
    /\ IsDefined(infoPanelState.selectedRoute)
    /\ IsDefined(infoPanelState.nearbyRoute)
    /\ IsDefined(userLocation)
    /\ paidRouteIds # <<>>
    /\ StoredMarks # {}

====
